---- MODULE Spec2Model ----
(***************************************************************************)
(* Model of boneless_sim/sim.py: the BonelessSimulator object (memory,    *)
(* register window, flags, program counter, run-scope gate, I/O callback)  *)
(* and its operations.  Every method is a pure operator from the object    *)
(* state `self` to the state it leaves behind plus the exception it        *)
(* raises; the actions apply the operators to the current state.           *)
(***************************************************************************)
EXTENDS Integers, Sequences, FiniteSets, TLC

VARIABLES sim_active, window, pc, flags, mem, io_callback, call, raised, pc0, nsteps,
          depth

vars == <<sim_active, window, pc, flags, mem, io_callback, call, raised, pc0, nsteps,
          depth>>

(* the fields of the simulator object, as one record *)
objvars == <<sim_active, window, pc, flags, mem, io_callback>>

-----------------------------------------------------------------------------
(* Bounds of the model *)

MemSize == 18

(* deepest nesting of with-blocks *)
MaxDepth == 2

-----------------------------------------------------------------------------
(* Python integer operators.  Python's & on a negative int works on the    *)
(* infinite two's-complement representation; floor division and modulo by  *)
(* 2 yield exactly those bits.                                             *)

RECURSIVE BitAnd(_, _)
BitAnd(x, y) ==
    IF y = 0 \/ x = 0 THEN 0
    ELSE (x % 2) * (y % 2) + 2 * BitAnd(x \div 2, y \div 2)

RECURSIVE BitOr(_, _)
BitOr(x, y) ==
    IF x = 0 THEN y
    ELSE IF y = 0 THEN x
    ELSE (IF x % 2 = 1 \/ y % 2 = 1 THEN 1 ELSE 0) + 2 * BitOr(x \div 2, y \div 2)

RECURSIVE BitXor(_, _)
BitXor(x, y) ==
    IF x = 0 THEN y
    ELSE IF y = 0 THEN x
    ELSE (IF x % 2 # y % 2 THEN 1 ELSE 0) + 2 * BitXor(x \div 2, y \div 2)

RECURSIVE Pow2(_)
Pow2(n) == IF n = 0 THEN 1 ELSE 2 * Pow2(n - 1)

ShiftR(x, n) == x \div Pow2(n)

(* int(b) of a Python truth value *)
BoolInt(b) == IF b THEN 1 ELSE 0

(* the values an array.array("H") cell accepts *)
Word == 0..65535

-----------------------------------------------------------------------------
(* sim.py: sign *)

(* variant: a magnitude test, 0 for every negative value *)
sign_magnitude(val) == BoolInt(val >= 32768 /\ BitAnd(val, 32768) # 0)

sign(val) == BoolInt(BitAnd(val, 32768) # 0)       \* 0x08000

-----------------------------------------------------------------------------
(* The object state and the outcome of a call *)

Self ==
    [sim_active |-> sim_active, window |-> window, pc |-> pc,
     flags |-> flags, mem |-> mem, io_callback |-> io_callback]

(* a call returns normally *)
Return(self) == [self |-> self, exc |-> "none"]

(* a call raises; self is the state at the raise *)
Raise(self, e) == [self |-> self, exc |-> e]

(* __init__ with the default start_pc and no io_callback *)
construct(start_pc, memsize, cb) ==
    [sim_active |-> FALSE, window |-> 0, pc |-> start_pc,
     flags |-> [Z |-> 0, S |-> 0, C |-> 0, V |-> 0],
     mem |-> [i \in 0..(memsize - 1) |-> 0],
     io_callback |-> cb]

(* array indexing: i in [-len, len), negative indexes count from the end *)
MemLen(self) == Cardinality(DOMAIN self.mem)

IndexOk(self, i) == -MemLen(self) <= i /\ i < MemLen(self)

Index(self, i) == IF i < 0 THEN i + MemLen(self) ELSE i

reg_loc(self, offs) == self.window + offs

read_reg(self, reg) == self.mem[Index(self, reg_loc(self, reg))]

(* self.mem[i] = val on an array.array("H"): the index is checked first,   *)
(* then the value                                                          *)
mem_store(self, i, val) ==
    IF ~IndexOk(self, i) THEN Raise(self, "IndexError")
    ELSE IF val \notin Word THEN Raise(self, "OverflowError")
    ELSE Return([self EXCEPT !.mem[Index(self, i)] = val])

_write_reg(self, reg, val) == mem_store(self, reg_loc(self, reg), val)

-----------------------------------------------------------------------------
(* The run scope: __enter__ / __exit__ *)

enter(self) == Return([self EXCEPT !.sim_active = TRUE])

(* variant: the gate is cleared only when the block ended normally *)
exit_onlyclean(self, type) ==
    IF type = "none" THEN Return([self EXCEPT !.sim_active = FALSE])
    ELSE Raise(self, type)

(* __exit__(type, value, traceback): type is the exception the enclosed    *)
(* block ended with ("none" for a normal end); the result is None, so the  *)
(* exception goes on to the caller                                         *)
exit(self, type) == [self |-> [self EXCEPT !.sim_active = FALSE], exc |-> type]

-----------------------------------------------------------------------------
(* The external mutators, refused while the run scope is held *)

set_pc(self, new_pc) ==
    IF ~self.sim_active THEN Return([self EXCEPT !.pc = new_pc])
    ELSE Return(self)

(* variant: the gate is not consulted *)
write_reg_ungated(self, reg, val) == mem_store(self, reg_loc(self, reg), val)

write_reg(self, reg, val) ==
    IF ~self.sim_active THEN mem_store(self, reg_loc(self, reg), val)
    ELSE Return(self)

(* the loop of load_program from element i on; a failing store stops the   *)
(* loop and keeps the cells already written                                *)
RECURSIVE load_from(_, _, _, _)
load_from(self, contents, start, i) ==
    IF i > Len(contents) THEN Return(self)
    ELSE LET r == mem_store(self, (i - 1) + start, contents[i])
         IN  IF r.exc # "none" THEN r
             ELSE load_from(r.self, contents, start, i + 1)

load_program(self, contents, start) ==
    IF ~self.sim_active THEN load_from(self, contents, start, 1)
    ELSE Return(self)

register_io(self, callback) ==
    IF ~self.sim_active THEN Return([self EXCEPT !.io_callback = callback])
    ELSE Return(self)

-----------------------------------------------------------------------------
(* do_a_class.  The three groups return the state they leave, the value    *)
(* `raw` they computed and the exception of a failing register write; the  *)
(* flags C and V are assigned before the write.                            *)

(* variant of ADD: V taken from the carry *)
a_add_vcarry(self, dst, val_a, val_b) ==
    LET raw == val_a + val_b
        c   == BoolInt(raw > 65535)
        f   == [self EXCEPT !.flags.C = c, !.flags.V = c]
        w   == IF c = 1 THEN _write_reg(f, dst, raw - 65536)
                        ELSE _write_reg(f, dst, raw)
    IN  [self |-> w.self, exc |-> w.exc, raw |-> raw]

(* variant of ADD: the sum is written without bringing it back into range *)
a_add_nowrap(self, dst, val_a, val_b) ==
    LET s_a == sign(val_a)
        s_b == sign(val_b)
        raw == val_a + val_b
        s_r == sign(raw)
        c   == BoolInt(raw > 65535)
        v   == BoolInt((s_a = 1 /\ s_b = 1 /\ s_r = 0) \/ (s_a = 0 /\ s_b = 0 /\ s_r = 1))
        f   == [self EXCEPT !.flags.C = c, !.flags.V = v]
        w   == _write_reg(f, dst, raw)
    IN  [self |-> w.self, exc |-> w.exc, raw |-> raw]

(* typ == 0: ADD *)
a_add(self, dst, val_a, val_b) ==
    LET s_a == sign(val_a)
        s_b == sign(val_b)
        raw == val_a + val_b
        s_r == sign(raw)
        c   == BoolInt(raw > 65535)
        v   == BoolInt((s_a = 1 /\ s_b = 1 /\ s_r = 0) \/ (s_a = 0 /\ s_b = 0 /\ s_r = 1))
        f   == [self EXCEPT !.flags.C = c, !.flags.V = v]
        w   == IF c = 1 THEN _write_reg(f, dst, raw - 65536)
                        ELSE _write_reg(f, dst, raw)
    IN  [self |-> w.self, exc |-> w.exc, raw |-> raw]

(* variant of SUB/CMP: CMP writes its result as SUB does *)
a_sub_cmpwrites(self, typ, dst, val_a, val_b) ==
    LET s_a == sign(val_a)
        s_b == sign(val_b)
        raw == val_a - val_b
        s_r == sign(raw)
        c   == BoolInt(val_a < val_b)
        v   == BoolInt((s_a = 1 /\ s_b = 0 /\ s_r = 0) \/ (s_a = 0 /\ s_b = 1 /\ s_r = 1))
        f   == [self EXCEPT !.flags.C = c, !.flags.V = v]
        w   == IF raw < 0 THEN _write_reg(f, dst, raw + 65536)
                          ELSE _write_reg(f, dst, raw)
    IN  [self |-> w.self, exc |-> w.exc, raw |-> raw]

(* variant of SUB/CMP: only SUB assigns V *)
a_sub_cmpnov(self, typ, dst, val_a, val_b) ==
    LET s_a == sign(val_a)
        s_b == sign(val_b)
        raw == val_a - val_b
        s_r == sign(raw)
        c   == BoolInt(val_a < val_b)
        v   == BoolInt((s_a = 1 /\ s_b = 0 /\ s_r = 0) \/ (s_a = 0 /\ s_b = 1 /\ s_r = 1))
        f   == IF typ = 1 THEN [self EXCEPT !.flags.C = c, !.flags.V = v]
                          ELSE [self EXCEPT !.flags.C = c]
        w   == IF typ = 1
               THEN IF raw < 0 THEN _write_reg(f, dst, raw + 65536)
                               ELSE _write_reg(f, dst, raw)
               ELSE Return(f)
    IN  [self |-> w.self, exc |-> w.exc, raw |-> raw]

(* typ in {1, 2}: SUB writes the wrapped difference, CMP skips the write *)
a_sub(self, typ, dst, val_a, val_b) ==
    LET s_a == sign(val_a)
        s_b == sign(val_b)
        raw == val_a - val_b
        s_r == sign(raw)
        c   == BoolInt(val_a < val_b)
        v   == BoolInt((s_a = 1 /\ s_b = 0 /\ s_r = 0) \/ (s_a = 0 /\ s_b = 1 /\ s_r = 1))
        f   == [self EXCEPT !.flags.C = c, !.flags.V = v]
        w   == IF typ = 1
               THEN IF raw < 0 THEN _write_reg(f, dst, raw + 65536)
                               ELSE _write_reg(f, dst, raw)
               ELSE Return(f)
    IN  [self |-> w.self, exc |-> w.exc, raw |-> raw]

(* variant of the logic group: C and V are cleared *)
a_logic_clears(self, typ, dst, val_a, val_b) ==
    LET raw == IF typ = 0 THEN BitAnd(val_a, val_b)
               ELSE IF typ = 1 THEN BitOr(val_a, val_b)
               ELSE BitXor(val_a, val_b)
        w   == _write_reg([self EXCEPT !.flags.C = 0, !.flags.V = 0], dst, raw)
    IN  [self |-> w.self, exc |-> w.exc, raw |-> raw]

(* code == 0: AND / OR / XOR *)
a_logic(self, typ, dst, val_a, val_b) ==
    LET raw == IF typ = 0 THEN BitAnd(val_a, val_b)
               ELSE IF typ = 1 THEN BitOr(val_a, val_b)
               ELSE BitXor(val_a, val_b)
        w   == _write_reg(self, dst, raw)
    IN  [self |-> w.self, exc |-> w.exc, raw |-> raw]

(* the assignments of Z and S that end do_a_class; Python's True/False     *)
(* stored in Z compare equal to 1/0                                        *)
a_flags(self, raw) ==
    [self EXCEPT !.flags.Z = BoolInt(raw = 0), !.flags.S = sign(raw)]

do_a_class(self, opcode) ==
    LET dst  == ShiftR(BitAnd(1792, opcode), 8)      \* 0x0700
        opa  == ShiftR(BitAnd(224, opcode), 5)       \* 0x00E0
        opb  == ShiftR(BitAnd(28, opcode), 2)        \* 0x001C
        typ  == BitAnd(3, opcode)                    \* 0x0003
        code == ShiftR(BitAnd(2048, opcode), 11)     \* 0x0800
    IN  IF ~IndexOk(self, reg_loc(self, opa)) \/ ~IndexOk(self, reg_loc(self, opb))
        THEN Raise(self, "IndexError")
        ELSE
        LET val_a == read_reg(self, opa)
            val_b == read_reg(self, opb)
            r == IF code # 0 /\ typ \in 0..2
                 THEN IF typ = 0 THEN a_add(self, dst, val_a, val_b)
                                 ELSE a_sub(self, typ, dst, val_a, val_b)
                 ELSE IF code = 0 /\ typ \in 0..2
                 THEN a_logic(self, typ, dst, val_a, val_b)
                 ELSE [self |-> self, exc |-> "Do A Class", raw |-> 0]
        IN  IF r.exc # "none" THEN Raise(r.self, r.exc)
            ELSE Return(a_flags(r.self, r.raw))

-----------------------------------------------------------------------------
(* do_i_class *)

(* variant: a four-bit selector, mask 0x7800 *)
i_opc_4bit(opcode) == ShiftR(BitAnd(30720, opcode), 11)

i_opc(opcode) == ShiftR(BitAnd(14336, opcode), 11)   \* 0x3800

(* variant: a four-bit register field, mask 0x0F00 *)
i_srcdst_4bit(opcode) == ShiftR(BitAnd(3840, opcode), 8)

i_srcdst(opcode) == ShiftR(BitAnd(1792, opcode), 8)  \* 0x0700

i_imm(opcode) == BitAnd(255, opcode)                 \* 0x00FF

(* variant: opc 0 keeps nothing of the register *)
i_val_lowonly(opc, reg, imm) ==
    IF opc = 0 THEN imm
               ELSE BitOr(BitAnd(reg, 255), imm)

(* the value computed by the branch for opc; defined for opc in {0, 1} *)
i_val(opc, reg, imm) ==
    IF opc = 0 THEN BitOr(BitAnd(reg, 65280), imm)   \* 0xFF00
               ELSE BitOr(BitAnd(reg, 255), imm)     \* 0x00FF

(* variant: the second branch is a plain else, nothing is rejected *)
do_i_class_noreject(self, opcode) ==
    LET opc    == i_opc(opcode)
        srcdst == i_srcdst(opcode)
        imm    == i_imm(opcode)
    IN  IF ~IndexOk(self, reg_loc(self, srcdst)) THEN Raise(self, "IndexError")
        ELSE _write_reg(self, srcdst,
                        i_val(IF opc = 0 THEN 0 ELSE 1, read_reg(self, srcdst), imm))

(* variant: Z and S are set from the loaded value as do_a_class does *)
do_i_class_setsflags(self, opcode) ==
    LET opc    == i_opc(opcode)
        srcdst == i_srcdst(opcode)
        imm    == i_imm(opcode)
    IN  IF opc \notin {0, 1} THEN Raise(self, "Do I Class")
        ELSE IF ~IndexOk(self, reg_loc(self, srcdst)) THEN Raise(self, "IndexError")
        ELSE LET val == i_val(opc, read_reg(self, srcdst), imm)
                 w   == _write_reg(self, srcdst, val)
             IN  IF w.exc # "none" THEN w ELSE Return(a_flags(w.self, val))

do_i_class(self, opcode) ==
    LET opc    == i_opc(opcode)
        srcdst == i_srcdst(opcode)
        imm    == i_imm(opcode)
    IN  IF opc \notin {0, 1} THEN Raise(self, "Do I Class")
        ELSE IF ~IndexOk(self, reg_loc(self, srcdst)) THEN Raise(self, "IndexError")
        ELSE _write_reg(self, srcdst, i_val(opc, read_reg(self, srcdst), imm))

-----------------------------------------------------------------------------
(* stepi *)

op_class_of(opcode) == ShiftR(BitAnd(63488, opcode), 11)   \* 0xF800

(* variant: the advance is refused while the run scope is held *)
pc_advance_gated(self) ==
    IF self.sim_active THEN self ELSE [self EXCEPT !.pc = self.pc + 1]

pc_advance(self) == [self EXCEPT !.pc = self.pc + 1]

(* variant: pc is advanced before the class is rejected *)
stepi_advfirst(self) ==
    IF ~IndexOk(self, self.pc) THEN Raise(self, "IndexError")
    ELSE
    LET opcode   == self.mem[Index(self, self.pc)]
        op_class == op_class_of(opcode)
    IN  IF op_class \in {0, 1}
        THEN LET r == do_a_class(self, opcode)
             IN  IF r.exc # "none" THEN r ELSE Return(pc_advance(r.self))
        ELSE IF op_class \in 8..15
        THEN LET r == do_i_class(self, opcode)
             IN  IF r.exc # "none" THEN r ELSE Return(pc_advance(r.self))
        ELSE Raise(pc_advance(self), "Step Instruction")

stepi(self) ==
    IF ~IndexOk(self, self.pc) THEN Raise(self, "IndexError")
    ELSE
    LET opcode   == self.mem[Index(self, self.pc)]
        op_class == op_class_of(opcode)
    IN  IF op_class \in {0, 1}
        THEN LET r == do_a_class(self, opcode)
             IN  IF r.exc # "none" THEN r ELSE Return(pc_advance(r.self))
        ELSE IF op_class \in 8..15
        THEN LET r == do_i_class(self, opcode)
             IN  IF r.exc # "none" THEN r ELSE Return(pc_advance(r.self))
        ELSE Raise(self, "Step Instruction")

-----------------------------------------------------------------------------
(* Inputs of the calls *)

(* write_reg(reg, val) calls: 0x7FFF and 0xFFFF into register 1, 0xFFFF   *)
(* into register 2, a value an unsigned 16-bit cell rejects, and a         *)
(* register past the end of memory                                         *)
WriteInputs ==
    {<<1, 32767>>, <<1, 65535>>, <<2, 65535>>, <<1, 65536>>, <<MemSize, 65535>>}

(* dst = 0 (srcdst = 0), opa = 1, opb = 2 in every opcode:                 *)
(*   0x0028..0x002B  AND, OR, XOR, logic typ 3                             *)
(*   0x0828..0x082B  ADD, SUB, CMP, arithmetic typ 3                       *)
(*   0x40AB, 0x48AB, 0x50AB  I-class opc 0, 1, 2 with imm 0xAB             *)
(*   0x1000  class 0x02                                                    *)
Opcodes ==
    {40, 41, 42, 43, 2088, 2089, 2090, 2091, 16555, 18603, 20651, 4096}

Programs == {<<>>} \cup {<<op>> : op \in Opcodes}

StartInputs == {16}

PcInputs == {16, 17}

Callbacks == {"None", "cb"}

-----------------------------------------------------------------------------
(* The state machine: one action per call on the simulator.  call is the   *)
(* kind of the last call ("construct", "enter", "exit", "mutator" for      *)
(* set_pc / write_reg / load_program / register_io, "stepi")               *)
(* and raised the exception it surfaced; pc0 and                           *)
(* nsteps record the pc left by the last set_pc call (or the constructor)  *)
(* and the number of successful steps since.  depth is the number of       *)
(* with-blocks entered and not yet left, counted where the callers nest    *)
(* them (SpecNest below); the other specifications do not count and leave  *)
(* it 0.                                                                   *)

Commit(r) ==
    /\ sim_active' = r.self.sim_active
    /\ window' = r.self.window
    /\ pc' = r.self.pc
    /\ flags' = r.self.flags
    /\ mem' = r.self.mem
    /\ io_callback' = r.self.io_callback
    /\ raised' = r.exc

Init ==
    LET s == construct(16, MemSize, "None")
    IN  /\ sim_active = s.sim_active
        /\ window = s.window
        /\ pc = s.pc
        /\ flags = s.flags
        /\ mem = s.mem
        /\ io_callback = s.io_callback
        /\ call = "construct"
        /\ raised = "none"
        /\ pc0 = s.pc
        /\ nsteps = 0
        /\ depth = 0

Enter ==
    /\ Commit(enter(Self))
    /\ call' = "enter"
    /\ UNCHANGED <<pc0, nsteps, depth>>

(* the block ends with the exception of its last call, if that raised *)
Exit ==
    /\ Commit(exit(Self, raised))
    /\ call' = "exit"
    /\ UNCHANGED <<pc0, nsteps, depth>>

SetPc ==
    \E p \in PcInputs :
        /\ Commit(set_pc(Self, p))
        /\ call' = "mutator"
        /\ pc0' = pc'
        /\ nsteps' = 0
        /\ UNCHANGED depth

WriteReg ==
    \E w \in WriteInputs :
        /\ Commit(write_reg(Self, w[1], w[2]))
        /\ call' = "mutator"
        /\ UNCHANGED <<pc0, nsteps, depth>>

LoadProgram ==
    \E c \in Programs, st \in StartInputs :
        /\ Commit(load_program(Self, c, st))
        /\ call' = "mutator"
        /\ UNCHANGED <<pc0, nsteps, depth>>

RegisterIo ==
    \E cb \in Callbacks :
        /\ Commit(register_io(Self, cb))
        /\ call' = "mutator"
        /\ UNCHANGED <<pc0, nsteps, depth>>

Stepi ==
    LET r == stepi(Self)
    IN  /\ Commit(r)
        /\ call' = "stepi"
        /\ nsteps' = IF r.exc = "none" THEN nsteps + 1 ELSE nsteps
        /\ UNCHANGED <<pc0, depth>>

Next ==
    \/ Enter
    \/ Exit
    \/ SetPc
    \/ WriteReg
    \/ LoadProgram
    \/ RegisterIo
    \/ Stepi

Spec == Init /\ [][Next]_vars

-----------------------------------------------------------------------------
(* The instruction semantics on their own: the initial states are the      *)
(* states a caller's setup leaves (registers 0..2 written, a two-word      *)
(* program loaded at 0x10, the run scope entered or not), and the only     *)
(* action is stepi.                                                        *)

(* 0x0000, 0x0001, 0x7FFF, 0x8000, 0xFFFF *)
AluVals == {0, 1, 32767, 32768, 65535}

(* initial contents of register 0: 0x0000, 0x7FCD *)
AluDstVals == {0, 32717}

(* first word of the program: 0x0000 (AND r0,r0,r0), ADD, SUB r0,r1,r2 *)
AluFirst == {0, 2088, 2089}

(* second word: the opcodes above and                                      *)
(*   0x0000          AND r0,r0,r0                                          *)
(*   0x0928..0x092A  ADD, SUB, CMP r1,r1,r2 (dst = opa)                    *)
(*   0x42AB, 0x4AAB  I-class opc 0, 1 on register 2                        *)
(*   0x78AB          I-class opc 7                                         *)
(*   0x3800, 0x8000  classes 0x07, 0x10                                    *)
AluOpcodes ==
    Opcodes \cup {0, 2344, 2345, 2346, 17067, 19115, 30891, 14336, 32768}

AluSetup(v0, a, b, op1, op2, act) ==
    LET s0 == construct(16, MemSize, "None")
        s1 == write_reg(s0, 0, v0).self
        s2 == write_reg(s1, 1, a).self
        s3 == write_reg(s2, 2, b).self
        s4 == load_program(s3, <<op1, op2>>, 16).self
    IN  IF act THEN enter(s4).self ELSE s4

InitALU ==
    \E v0 \in AluDstVals, a \in AluVals, b \in AluVals,
       op1 \in AluFirst, op2 \in AluOpcodes, act \in BOOLEAN :
        LET s == AluSetup(v0, a, b, op1, op2, act)
        IN  /\ sim_active = s.sim_active
            /\ window = s.window
            /\ pc = s.pc
            /\ flags = s.flags
            /\ mem = s.mem
            /\ io_callback = s.io_callback
            /\ call = IF act THEN "enter" ELSE "mutator"
            /\ raised = "none"
            /\ pc0 = s.pc
            /\ nsteps = 0
            /\ depth = 0
        /\ depth = 0

NextALU == Stepi

SpecALU == InitALU /\ [][NextALU]_vars

-----------------------------------------------------------------------------
(* Nested with-blocks on one simulator: every __enter__ is paired with a   *)
(* later __exit__, blocks nest up to MaxDepth, and the external mutators   *)
(* are called in between.                                                  *)

EnterScope ==
    /\ depth < MaxDepth
    /\ Commit(enter(Self))
    /\ call' = "enter"
    /\ depth' = depth + 1
    /\ UNCHANGED <<pc0, nsteps>>

ExitScope ==
    /\ depth > 0
    /\ Commit(exit(Self, raised))
    /\ call' = "exit"
    /\ depth' = depth - 1
    /\ UNCHANGED <<pc0, nsteps>>

NextNest ==
    \/ EnterScope
    \/ ExitScope
    \/ SetPc
    \/ WriteReg
    \/ LoadProgram
    \/ RegisterIo

SpecNest == Init /\ [][NextNest]_vars

-----------------------------------------------------------------------------
(* The simulator constructed with a memory shorter than the 16-cell        *)
(* register window: __init__ takes any memsize and any start_pc.  The      *)
(* program is one word at address 3, where the constructor puts pc.        *)

(* memsize arguments of the constructor *)
SmallSizes == {4, 8}

(* dst = 5 (srcdst = 5), opa = 1, opb = 2:                                 *)
(*   0x0528          AND r5,r1,r2                                          *)
(*   0x0D28..0x0D2A  ADD, SUB, CMP r5,r1,r2                                *)
(*   0x45AB          I-class opc 0 on register 5                           *)
SmallOpcodes == {1320, 3368, 3369, 3370, 17835}

InitSmall ==
    \E ms \in SmallSizes :
        LET s == construct(3, ms, "None")
        IN  /\ sim_active = s.sim_active
            /\ window = s.window
            /\ pc = s.pc
            /\ flags = s.flags
            /\ mem = s.mem
            /\ io_callback = s.io_callback
            /\ call = "construct"
            /\ raised = "none"
            /\ pc0 = s.pc
            /\ nsteps = 0
            /\ depth = 0
        /\ depth = 0

LoadSmall ==
    \E op \in SmallOpcodes :
        /\ Commit(load_program(Self, <<op>>, 3))
        /\ call' = "mutator"
        /\ UNCHANGED <<pc0, nsteps, depth>>

NextSmall ==
    \/ Enter
    \/ Exit
    \/ SetPc
    \/ WriteReg
    \/ LoadSmall
    \/ RegisterIo
    \/ Stepi

SpecSmall == InitSmall /\ [][NextSmall]_vars

-----------------------------------------------------------------------------
(* Vocabulary of the properties.  Fields are taken from the opcode by      *)
(* division, independently of the masks and shifts of the handlers.        *)

Field(op, lo, width) == (op \div Pow2(lo)) % Pow2(width)

Bit(x, i) == (x \div Pow2(i)) % 2

Signed16(x) == IF x >= 32768 THEN x - 65536 ELSE x

(* the step taken is a stepi call on a fetchable pc *)
StepTaken == call' = "stepi" /\ pc \in DOMAIN mem

(* ... that returned normally *)
StepOk == StepTaken /\ raised' = "none"

(* the fetched opcode is A-class with the given group and subtype *)
IsA(code, typ) ==
    /\ Field(mem[pc], 12, 4) = 0
    /\ Field(mem[pc], 11, 1) = code
    /\ Field(mem[pc], 0, 2) = typ

(* the fetched opcode is I-class (class 0x08..0x0F) with bits [13:11] = opc *)
IsI(opc) ==
    /\ Field(mem[pc], 14, 2) = 1
    /\ Field(mem[pc], 11, 3) = opc

OperandA == mem[window + Field(mem[pc], 5, 3)]

OperandB == mem[window + Field(mem[pc], 2, 3)]

(* address of dst (A-class) and srcdst (I-class): bits [10:8] *)
DstLoc == window + Field(mem[pc], 8, 3)

-----------------------------------------------------------------------------
(* C1: a successful ADD step writes (a + b) mod 65536 to dst, sets Carry   *)
(* exactly when a + b >= 65536 and Overflow exactly when the signed 16-bit *)
(* sum is outside [-32768, 32767].                                         *)
C1_AddResultCarryOverflow ==
    [][ (StepOk /\ IsA(1, 0)) =>
            LET a == OperandA
                b == OperandB
            IN  /\ mem'[DstLoc] = (a + b) % 65536
                /\ flags'.C = (IF a + b >= 65536 THEN 1 ELSE 0)
                /\ flags'.V = (IF Signed16(a) + Signed16(b) \in -32768..32767
                               THEN 0 ELSE 1) ]_vars

(* 0x7FFF + 0x0001: result 0x8000, C = 0, V = 1 *)
C1_Witness ==
    /\ call = "stepi" /\ raised = "none" /\ pc = 17
    /\ mem[16] = 2088 /\ mem[1] = 32767 /\ mem[2] = 1
    /\ mem[0] = 32768 /\ flags.C = 0 /\ flags.V = 1

(* C2: a successful SUB or CMP step sets Carry exactly when a < b; SUB     *)
(* writes (a - b) mod 65536 to dst; CMP leaves every memory cell unchanged.*)
C2_SubCmpBorrowAndWrite ==
    [][ /\ (StepOk /\ IsA(1, 1)) =>
               /\ flags'.C = (IF OperandA < OperandB THEN 1 ELSE 0)
               /\ mem'[DstLoc] = (OperandA - OperandB) % 65536
        /\ (StepOk /\ IsA(1, 2)) =>
               /\ flags'.C = (IF OperandA < OperandB THEN 1 ELSE 0)
               /\ mem' = mem ]_vars

(* CMP r0,r1,r2 with r1 < r2 as the second instruction: borrow, r0 kept *)
C2_Witness ==
    /\ call = "stepi" /\ raised = "none" /\ pc = 18
    /\ mem[17] = 2090 /\ mem[1] = 1 /\ mem[2] = 32768
    /\ mem[0] = 32717 /\ flags.C = 1

(* C3: after every successful A-class step Zero is true iff the 16-bit     *)
(* result (the value written to dst, the wrapped difference for CMP) is 0, *)
(* and Sign is bit 15 of that value.                                       *)
C3_ZeroSignOfResult ==
    [][ (StepOk /\ \E code \in 0..1, typ \in 0..2 : IsA(code, typ)) =>
            LET res == IF IsA(1, 2) THEN (OperandA - OperandB) % 65536
                                    ELSE mem'[DstLoc]
            IN  /\ flags'.Z = (IF res = 0 THEN 1 ELSE 0)
                /\ flags'.S = Bit(res, 15) ]_vars

(* C4: a successful AND, OR or XOR step writes the bitwise and / or / xor  *)
(* of the operands to dst, leaves Carry and Overflow as they were, and     *)
(* sets Zero and Sign from the result.                                     *)
C4_LogicResultAndFlags ==
    [][ \A typ \in 0..2 : (StepOk /\ IsA(0, typ)) =>
            LET a == OperandA
                b == OperandB
                r == mem'[DstLoc]
            IN  /\ r \in 0..65535
                /\ \A i \in 0..15 :
                      Bit(r, i) = CASE typ = 0 -> Bit(a, i) * Bit(b, i)
                                    [] typ = 1 -> (IF Bit(a, i) + Bit(b, i) > 0 THEN 1 ELSE 0)
                                    [] typ = 2 -> (Bit(a, i) + Bit(b, i)) % 2
                /\ flags'.C = flags.C
                /\ flags'.V = flags.V
                /\ flags'.Z = (IF r = 0 THEN 1 ELSE 0)
                /\ flags'.S = Bit(r, 15) ]_vars

(* XOR of 0x8000 with itself after 0x8000 + 0x8000 set C = V = 1 *)
C4_Witness ==
    /\ call = "stepi" /\ raised = "none" /\ pc = 18
    /\ mem[16] = 2088 /\ mem[17] = 42 /\ mem[1] = 32768 /\ mem[2] = 32768
    /\ mem[0] = 0 /\ flags = [Z |-> 1, S |-> 0, C |-> 1, V |-> 1]

(* C5: a successful I-class step with opc = 0 turns register srcdst from v *)
(* into (v & 0xFF00) | imm: high byte kept, low byte imm.                  *)
C5_LoadLowByte ==
    [][ (StepOk /\ IsI(0)) =>
            mem'[DstLoc] = (mem[DstLoc] \div 256) * 256 + Field(mem[pc], 0, 8) ]_vars

(* opcode 0x40AB on register 0 = 0x7FCD gives 0x7FAB *)
C5_Witness ==
    /\ call = "stepi" /\ raised = "none" /\ pc = 18
    /\ mem[16] = 0 /\ mem[17] = 16555 /\ mem[0] = 32683

(* C6: a successful I-class step with opc = 1 keeps the low byte of        *)
(* register srcdst and replaces the high byte by the immediate.            *)
C6_LoadHighByte ==
    [][ (StepOk /\ IsI(1)) =>
            /\ mem'[DstLoc] % 256 = mem[DstLoc] % 256
            /\ mem'[DstLoc] \div 256 = Field(mem[pc], 0, 8) ]_vars

(* C7: while the run scope is held, write_reg, set_pc, load_program and    *)
(* register_io change nothing and raise nothing; a stepi in the scope has  *)
(* the effect the same step has outside the scope.                         *)
C7_GateRefusesMutatorsNotSteps ==
    [][ /\ (sim_active /\ call' = "mutator") =>
               (UNCHANGED objvars /\ raised' = "none")
        /\ (sim_active /\ call' = "stepi") =>
               LET r == stepi([Self EXCEPT !.sim_active = FALSE])
               IN  /\ mem' = r.self.mem
                   /\ flags' = r.self.flags
                   /\ pc' = r.self.pc
                   /\ raised' = r.exc
                   /\ sim_active' ]_vars

(* a mutator called in the scope after a step taken in the scope *)
C7_Witness ==
    /\ sim_active /\ call = "mutator" /\ raised = "none"
    /\ nsteps = 1 /\ pc0 = 16 /\ pc = 17 /\ mem[16] = 2088 /\ mem[0] = 65534

(* C8: a step on an opcode whose class is outside {0x00, 0x01} and         *)
(* 0x08..0x0F raises the "Step Instruction" error and changes nothing.     *)
C8_UnknownClassNoChange ==
    [][ (StepTaken /\ Field(mem[pc], 11, 5) \notin ({0, 1} \cup (8..15))) =>
            (raised' = "Step Instruction" /\ UNCHANGED objvars) ]_vars

(* class 0x02 fetched inside the run scope *)
C8_Witness ==
    /\ call = "stepi" /\ raised = "Step Instruction" /\ sim_active
    /\ pc = 16 /\ mem[16] = 4096

(* C9: a step on an A-class opcode with typ = 3 or an I-class opcode with  *)
(* opc outside {0, 1} raises the handler's error and changes nothing.      *)
C9_InvalidEncodingNoChange ==
    [][ /\ (StepTaken /\ \E code \in 0..1 : IsA(code, 3)) =>
               (raised' = "Do A Class" /\ UNCHANGED objvars)
        /\ (StepTaken /\ \E opc \in 2..7 : IsI(opc)) =>
               (raised' = "Do I Class" /\ UNCHANGED objvars) ]_vars

(* I-class opc 2 rejected after a carry-setting ADD *)
C9_Witness ==
    /\ call = "stepi" /\ raised = "Do I Class"
    /\ mem[pc] = 20651 /\ flags.C = 1 /\ mem[0] = 65534

(* C10: a successful step adds exactly 1 to pc, in or out of the run       *)
(* scope, a failing step leaves pc alone, and pc is the pc left by the     *)
(* last set_pc call (or the constructor) plus the number of successful     *)
(* steps since.                                                            *)
C10_PcAdvancesByOne ==
    /\ [](pc = pc0 + nsteps)
    /\ [][ /\ (call' = "stepi" /\ raised' = "none") => pc' = pc + 1
           /\ (call' = "stepi" /\ raised' # "none") => pc' = pc ]_vars

(* two successful steps inside the run scope from pc 0x10 *)
C10_Witness ==
    /\ sim_active /\ call = "stepi" /\ raised = "none"
    /\ pc0 = 16 /\ nsteps = 2 /\ pc = 18

(* C11: after __exit__, whether the enclosed calls returned or a step     *)
(* raised, the gate is clear and set_pc, write_reg, load_program and       *)
(* register_io take effect.                                                *)
C11_GateReleasedOnExit ==
    call = "exit" =>
        /\ ~sim_active
        /\ \A p \in PcInputs : set_pc(Self, p).self.pc = p
        /\ \A w \in WriteInputs :
              (w[1] \in DOMAIN mem /\ w[2] \in 0..65535) =>
                  write_reg(Self, w[1], w[2]).self.mem[w[1]] = w[2]
        /\ \A c \in Programs, st \in StartInputs :
              Len(c) > 0 => load_program(Self, c, st).self.mem[st] = c[1]
        /\ \A cb \in Callbacks : register_io(Self, cb).self.io_callback = cb

(* the scope left with the error of a step on arithmetic typ 3 *)
C11_Witness ==
    /\ call = "exit" /\ raised = "Do A Class" /\ ~sim_active
    /\ mem[pc] = 2091 /\ io_callback = "None"

(* C12: a successful I-class step writes the value of its branch to       *)
(* register srcdst ((v & 0xFF00) | imm for opc 0, (v & 0x00FF) | imm for   *)
(* opc 1), writes no other cell and leaves Z, S, C and V as they were.     *)
C12_IClassKeepsFlags ==
    [][ \A opc \in 0..1 : (StepOk /\ IsI(opc)) =>
            LET v   == mem[DstLoc]
                imm == Field(mem[pc], 0, 8)
                r   == mem'[DstLoc]
            IN  /\ flags' = flags
                /\ \A i \in DOMAIN mem : i # DstLoc => mem'[i] = mem[i]
                /\ opc = 0 => r = (v \div 256) * 256 + imm
                /\ opc = 1 => /\ r \in 0..255
                              /\ \A i \in 0..7 :
                                    Bit(r, i) = (IF Bit(v, i) + Bit(imm, i) > 0 THEN 1 ELSE 0) ]_vars

(* opc 0 on register 0 = 0 after 0x8000 + 0x8000 left C = V = 1 *)
C12_Witness ==
    /\ call = "stepi" /\ raised = "none" /\ pc = 18
    /\ mem[16] = 2088 /\ mem[17] = 16555 /\ mem[1] = 32768 /\ mem[2] = 32768
    /\ mem[0] = 171 /\ flags = [Z |-> 0, S |-> 0, C |-> 1, V |-> 1]

(* the fetched opcode is dispatched to do_i_class *)
IsIClass == Field(mem[pc], 11, 5) \in 8..15

(* C13 as stated: for every opcode dispatched to the I-class handler, the  *)
(* selector the handler tests against 0 and 1 is bits [14:11], srcdst is   *)
(* bits [10:8] and imm is bits [7:0].                                      *)
C13_OpcIsBits14to11 ==
    [][ (StepTaken /\ IsIClass) =>
            /\ i_opc(mem[pc]) = Field(mem[pc], 11, 4)
            /\ (raised' = "none") = (Field(mem[pc], 11, 4) \in {0, 1})
            /\ i_srcdst(mem[pc]) = Field(mem[pc], 8, 3)
            /\ i_imm(mem[pc]) = Field(mem[pc], 0, 8) ]_vars

(* C13 amended: the selector is bits [13:11], a 3-bit value; the step      *)
(* succeeds exactly when those bits are 0 or 1; srcdst is bits [10:8] and  *)
(* imm is bits [7:0].                                                      *)
C13_OpcIsBits13to11 ==
    [][ (StepTaken /\ IsIClass) =>
            /\ i_opc(mem[pc]) = Field(mem[pc], 11, 3)
            /\ (raised' = "none") = (Field(mem[pc], 11, 3) \in {0, 1})
            /\ i_srcdst(mem[pc]) = Field(mem[pc], 8, 3)
            /\ i_imm(mem[pc]) = Field(mem[pc], 0, 8) ]_vars

(* opcode 0x4AAB (bits [14:11] = 9, bits [13:11] = 1) accepted: register 2 *)
(* 0xFFFF becomes 0x00FF                                                   *)
C13_Witness ==
    /\ call = "stepi" /\ raised = "none" /\ pc = 18
    /\ mem[17] = 19115 /\ mem[2] = 255 /\ mem[1] = 1 /\ mem[0] = 32717

(* C14: in every reachable state 0 <= window and window + 16 <= memsize,  *)
(* so read_reg(r) addresses a cell inside memory for every r in 0..15.     *)
C14_WindowInsideMemory ==
    /\ 0 <= window
    /\ window + 16 <= Cardinality(DOMAIN mem)
    /\ \A r \in 0..15 : window + r \in DOMAIN mem

(* C16: Carry and Overflow change only in a successful arithmetic step     *)
(* (ADD, SUB, CMP): logic steps, I-class steps, failing steps and the      *)
(* external calls leave them, and they are 0 after construction.           *)
C16_CarryOverflowOnlyByArithmetic ==
    /\ (call = "construct" => (flags.C = 0 /\ flags.V = 0))
    /\ [][ (flags'.C # flags.C \/ flags'.V # flags.V) =>
               /\ StepOk
               /\ \E typ \in 0..2 : IsA(1, typ) ]_vars

(* C15: after a successful SUB or CMP step Overflow is 1 exactly when the  *)
(* difference of the operands read as signed 16-bit numbers is outside     *)
(* [-32768, 32767], also when a < b and the unwrapped difference is        *)
(* negative.                                                               *)
C15_SubCmpOverflow ==
    [][ \A typ \in 1..2 : (StepOk /\ IsA(1, typ)) =>
            flags'.V = (IF Signed16(OperandA) - Signed16(OperandB) \in -32768..32767
                        THEN 0 ELSE 1) ]_vars

(* SUB 0x7FFF - 0xFFFF: a < b, 32767 - (-1) overflows, result 0x8000 *)
C15_Witness ==
    /\ call = "stepi" /\ raised = "none" /\ pc = 17
    /\ mem[16] = 2089 /\ mem[1] = 32767 /\ mem[2] = 65535
    /\ mem[0] = 32768 /\ flags.C = 1 /\ flags.V = 1

(* C17: in every state where at least one entered run scope has not yet   *)
(* been exited, nested scopes included, the gate is set and the external   *)
(* mutators change nothing.                                                *)
C17_GateHeldWhileAnyScopeOpen ==
    /\ [](depth > 0 => sim_active)
    /\ [][ (depth > 0 /\ call' = "mutator") => UNCHANGED objvars ]_vars

(* C18: a successful step changes at most the cell mem[window + d], d the *)
(* register index in bits [10:8] (0..7), and leaves every other cell, the  *)
(* window and the I/O callback; with window = 0 no cell at address 8 or    *)
(* above changes.                                                          *)
C18_StepWritesOneLowRegister ==
    [][ StepOk =>
            /\ DstLoc \in window..(window + 7)
            /\ DOMAIN mem' = DOMAIN mem
            /\ \A i \in DOMAIN mem : i # DstLoc => mem'[i] = mem[i]
            /\ window' = window
            /\ io_callback' = io_callback
            /\ window = 0 => \A i \in DOMAIN mem : i >= 8 => mem'[i] = mem[i] ]_vars

(* opcode 0x48AB (bit 11 set, register field 0): register 0 written,      *)
(* cell 8 and the program untouched                                        *)
C18_Witness ==
    /\ call = "stepi" /\ raised = "none" /\ pc = 18
    /\ mem[16] = 2089 /\ mem[17] = 18603 /\ mem[1] = 32768 /\ mem[2] = 1
    /\ mem[0] = 255 /\ mem[8] = 0

(* C19: every memory cell holds a value in [0, 65535] in every reachable  *)
(* state; memory is all zero after construction; no step ever hands the    *)
(* memory a value outside that range (which the array would reject with    *)
(* OverflowError).                                                         *)
C19_CellsAreUnsigned16 ==
    /\ \A i \in DOMAIN mem : mem[i] \in 0..65535
    /\ call = "construct" => \A i \in DOMAIN mem : mem[i] = 0
    /\ call = "stepi" => raised # "OverflowError"

(* ADD 0xFFFF + 0xFFFF stored as 0xFFFE inside the run scope *)
C19_Witness ==
    /\ call = "stepi" /\ raised = "none" /\ sim_active
    /\ mem[pc - 1] = 2088 /\ mem[1] = 65535 /\ mem[2] = 65535
    /\ mem[0] = 65534 /\ flags.C = 1 /\ io_callback = "cb"

(* the step taken from the same state with the word at pc replaced by op *)
TwinStep(op) == stepi([Self EXCEPT !.mem[pc] = op])

====
